---- MODULE Spec2Model ----
(***************************************************************************)
(* Model of StructureGenerationService.handleGenerateStructure of the      *)
(* background service worker: outline parsing, cleanup, type               *)
(* normalisation, the workload balancing loop, the evenness filler pass    *)
(* and the balancing summary.                                              *)
(*                                                                         *)
(* Cyrillic literals of the source are transliterated:                     *)
(*   lekciya = lecture label, laboratornaya / lab = lab labels,            *)
(*   praktika / prakticheskaya = practice labels, sro = independent study, *)
(*   konsultaciya = consultation.                                          *)
(* A line of text is a record [kind, base, num, label]: kind tells which   *)
(* of the parser's two tests the line passes, base/num are the words of    *)
(* the line and label is the content of its trailing parenthesis ("" when  *)
(* the line has none).                                                     *)
(***************************************************************************)
EXTENDS Integers, Sequences, FiniteSets, TLC

VARIABLES pc, workTypes, structure, chapters, currentCounts, typeIndex, summary

\* state of createChaptersFromStructure: the names of the declared work
\* types, the loop index, the results, the payloads sent so far, the wtMap
\* of every iteration and the number of inter-call delays that have elapsed
VARIABLES wtNames, index, results, requests, wtMaps, timers

createVars == <<wtNames, index, results, requests, wtMaps, timers>>

\* the response the message listener sends for the request being handled
VARIABLES response

\* the messages the background listener has received, in order of arrival
VARIABLES msgs

\* the popup: the generate button and the runs of its click handler
VARIABLES popup

\* chrome.storage.sync, cachedSettings of chrome.storage.local, the running
\* SettingsManager calls, Date.now() and the events sent to the analytics
\* endpoint
VARIABLES sync, cache, procs, now, events

settingsVars == <<sync, cache, procs, now, events>>

otherVars == <<msgs, popup, settingsVars>>

laterVars == <<response, otherVars>>

\* the state of one generate-and-create run
flowVars == <<pc, workTypes, structure, chapters, currentCounts, typeIndex,
              summary, wtNames, index, results, requests, wtMaps, timers,
              response>>

vars == <<pc, workTypes, structure, chapters, currentCounts, typeIndex, summary,
          createVars, laterVars>>

\* ---------------------------------------------------------------- bounds
MaxLines == 3
MaxTarget == 2
MaxSroHours == 1
MaxHours == 3

\* ------------------------------------------------------------- constants
Undefined == "undefined"
NoLabel == ""

\* Object.entries(targetCounts): insertion order of the three keys
TargetTypes == <<"lekciya", "laboratornaya", "praktika">>

\* ------------------------------------------------------ string predicates
\* String.prototype.toLowerCase().trim() on the labels of the model
LowerTrim(label) ==
    IF label = "SRO" THEN "sro"
    ELSE IF label = "Lekciya " THEN "lekciya"
    ELSE label

\* String.prototype.toLowerCase() alone (no trim)
Lower(label) ==
    IF label = "SRO" THEN "sro"
    ELSE IF label = "Lekciya " THEN "lekciya "
    ELSE label

\* name.toLowerCase().includes("samostoyateln")
IncludesSamost(name) ==
    name.base \in {"Samostoyatelnaya rabota", "Samostoyatelnaya rabota po teme"}

\* name.toLowerCase().includes("sro")
IncludesSro(name) == Lower(name.label) = "sro"

\* the redundant-SRO theme test of the cleanup pass
IsRedundantSro(name) ==
    /\ name.base = "Samostoyatelnaya rabota po teme"
    /\ Lower(name.label) = "sro"

\* ---------------------------------------------------------- mapWorkTypeLabel
mapWorkTypeLabel(label) ==
    CASE label = "lekciya" -> "lekciya"
      [] label = "laboratornaya" -> "laboratornaya"
      [] label = "lab" -> "laboratornaya"
      [] label = "praktika" -> "praktika"
      [] label = "prakticheskaya" -> "praktika"
      [] label = "sro" -> "sro"
      [] label = "konsultaciya" -> "konsultaciya"
      [] OTHER -> Undefined

\* ------------------------------------------------------------------ themes
Name(base, num, label) == [base |-> base, num |-> num, label |-> label]

\* a theme as the parser creates it: only the name is set
ParsedTheme(line) ==
    [name |-> Name(line.base, line.num, line.label),
     rawName |-> Undefined, label |-> Undefined, normalizedType |-> Undefined]

\* ------------------------------------------------------------------ parser
RECURSIVE ParseLinesOrphans(_, _, _)
\* variant: a text line met while no section is open opens an unnamed one
ParseLinesOrphans(lines, chs, current) ==
    IF lines = <<>>
    THEN IF current = <<>> THEN chs ELSE Append(chs, current[1])
    ELSE LET line == Head(lines) IN
         IF line.kind = "heading"
         THEN ParseLinesOrphans(Tail(lines),
                         IF current = <<>> THEN chs ELSE Append(chs, current[1]),
                         <<[name |-> Name(line.base, line.num, line.label),
                            themes |-> <<>>]>>)
         ELSE IF line.kind = "text"
         THEN ParseLinesOrphans(Tail(lines), chs,
                         IF current = <<>>
                         THEN <<[name |-> Name("", 0, NoLabel),
                                 themes |-> <<ParsedTheme(line)>>]>>
                         ELSE <<[current[1] EXCEPT !.themes =
                                    Append(@, ParsedTheme(line))]>>)
         ELSE ParseLinesOrphans(Tail(lines), chs, current)

RECURSIVE ParseLinesDropLast(_, _, _)
\* variant: the section that is open at the end of the text is not pushed
ParseLinesDropLast(lines, chs, current) ==
    IF lines = <<>> THEN chs
    ELSE LET line == Head(lines) IN
         IF line.kind = "heading"
         THEN ParseLinesDropLast(Tail(lines),
                         IF current = <<>> THEN chs ELSE Append(chs, current[1]),
                         <<[name |-> Name(line.base, line.num, line.label),
                            themes |-> <<>>]>>)
         ELSE IF line.kind = "text" /\ current # <<>>
         THEN ParseLinesDropLast(Tail(lines), chs,
                         <<[current[1] EXCEPT !.themes =
                                Append(@, ParsedTheme(line))]>>)
         ELSE ParseLinesDropLast(Tail(lines), chs, current)

RECURSIVE ParseLines(_, _, _)
\* lines.forEach with the accumulators chapters and current (<<>> = null)
ParseLines(lines, chs, current) ==
    IF lines = <<>>
    THEN IF current = <<>> THEN chs ELSE Append(chs, current[1])
    ELSE LET line == Head(lines) IN
         IF line.kind = "heading"
         THEN ParseLines(Tail(lines),
                         IF current = <<>> THEN chs ELSE Append(chs, current[1]),
                         <<[name |-> Name(line.base, line.num, line.label),
                            themes |-> <<>>]>>)
         ELSE IF line.kind = "text" /\ current # <<>>
         THEN ParseLines(Tail(lines), chs,
                         <<[current[1] EXCEPT !.themes =
                                Append(@, ParsedTheme(line))]>>)
         ELSE ParseLines(Tail(lines), chs, current)

\* ----------------------------------------------------------------- cleanup
SelectSeqIdx(s, Keep(_)) ==
    LET F[i \in 0..Len(s)] ==
            IF i = 0 THEN <<>>
            ELSE IF Keep(i) THEN Append(F[i - 1], s[i]) ELSE F[i - 1]
    IN F[Len(s)]

\* variant: only the chapter name is tested
IsStandaloneNameOnly(chapter) == IncludesSamost(chapter.name)

IsStandalone(chapter) ==
    /\ IncludesSamost(chapter.name)
    /\ \A j \in 1..Len(chapter.themes) :
          \/ IncludesSamost(chapter.themes[j].name)
          \/ IncludesSro(chapter.themes[j].name)

RemoveStandalone(chs) ==
    SelectSeqIdx(chs, LAMBDA i : ~IsStandalone(chs[i]))

RemoveRedundant(chs) ==
    [i \in 1..Len(chs) |->
        [chs[i] EXCEPT !.themes =
            SelectSeqIdx(chs[i].themes,
                         LAMBDA j : ~IsRedundantSro(chs[i].themes[j].name))]]

\* ----------------------------------------------------------- normalisation
NormalizeTheme(theme) ==
    LET label == IF theme.name.label = NoLabel THEN Undefined
                 ELSE LowerTrim(theme.name.label)
        mapped == mapWorkTypeLabel(label)
    IN [theme EXCEPT
           !.rawName = [base |-> theme.name.base, num |-> theme.name.num],
           !.label = label,
           !.normalizedType = IF mapped = Undefined THEN "sro" ELSE mapped]

Normalize(chs) ==
    [i \in 1..Len(chs) |->
        [chs[i] EXCEPT !.themes =
            [j \in 1..Len(chs[i].themes) |-> NormalizeTheme(chs[i].themes[j])]]]

\* ------------------------------------------------------------------ counts
RECURSIVE SumSeq(_)
SumSeq(s) == IF s = <<>> THEN 0 ELSE Head(s) + SumSeq(Tail(s))

CountIn(themes, type) ==
    Cardinality({j \in 1..Len(themes) : themes[j].normalizedType = type})

CountType(chs, type) ==
    SumSeq([i \in 1..Len(chs) |-> CountIn(chs[i].themes, type)])

TotalThemes(chs) == SumSeq([i \in 1..Len(chs) |-> Len(chs[i].themes)])

\* variant: the hours are rounded up to whole themes
lectureThemesCeil == (workTypes.lecture + 1) \div 2

lectureThemes == workTypes.lecture \div 2
labThemes == workTypes.lab \div 2
practiceThemes == workTypes.practice \div 2

targetCounts ==
    [t \in {"lekciya", "laboratornaya", "praktika"} |->
        CASE t = "lekciya" -> lectureThemes
          [] t = "laboratornaya" -> labThemes
          [] t = "praktika" -> practiceThemes]

\* ---------------------------------------------------------- balancing loop
Min(a, b) == IF a < b THEN a ELSE b

\* number of themes of the given type met before position (i, j) when the
\* chapters are scanned in order and the themes of a chapter first to last
SeenForward(chs, type, i, j) ==
    SumSeq([k \in 1..(i - 1) |-> CountIn(chs[k].themes, type)])
    + Cardinality({m \in 1..(j - 1) : chs[i].themes[m].normalizedType = type})

\* the same when the themes of a chapter are scanned last to first
SeenBackward(chs, type, i, j) ==
    SumSeq([k \in 1..(i - 1) |-> CountIn(chs[k].themes, type)])
    + Cardinality({m \in (j + 1)..Len(chs[i].themes) :
                      chs[i].themes[m].normalizedType = type})

\* variant: the themes of a chapter are scanned from the last to the first
ConvertSroBackward(chs, targetType, diff) ==
    [i \in 1..Len(chs) |->
        [chs[i] EXCEPT !.themes =
            [j \in 1..Len(chs[i].themes) |->
                LET theme == chs[i].themes[j] IN
                IF /\ theme.normalizedType = "sro"
                   /\ SeenBackward(chs, "sro", i, j) < diff
                THEN [theme EXCEPT
                        !.normalizedType = targetType,
                        !.name = Name(theme.rawName.base, theme.rawName.num,
                                      targetType)]
                ELSE theme]]]

RECURSIVE ConvertLoop(_, _, _, _, _, _)
\* the nested for loops over i and j with the counter converted; both loops
\* stop as soon as converted reaches diff
ConvertLoop(chs, targetType, diff, i, j, converted) ==
    IF i > Len(chs) \/ converted >= diff THEN chs
    ELSE IF j > Len(chs[i].themes)
    THEN ConvertLoop(chs, targetType, diff, i + 1, 1, converted)
    ELSE LET theme == chs[i].themes[j] IN
         IF theme.normalizedType = "sro"
         THEN ConvertLoop(
                 [chs EXCEPT ![i].themes[j] =
                     [theme EXCEPT
                        !.normalizedType = targetType,
                        !.name = Name(theme.rawName.base, theme.rawName.num,
                                      targetType)]],
                 targetType, diff, i, j + 1, converted + 1)
         ELSE ConvertLoop(chs, targetType, diff, i, j + 1, converted)

\* "Convert SRO themes to needed type"
ConvertSro(chs, targetType, diff) == ConvertLoop(chs, targetType, diff, 1, 1, 0)

NewTheme(i, targetType) ==
    [name |-> Name("Dopolnitelnaya tema", i + 1, targetType),
     rawName |-> [base |-> "Dopolnitelnaya tema", num |-> i + 1],
     label |-> Undefined,
     normalizedType |-> targetType]

\* variant: every new theme is pushed to the first chapter
AddThemesFirstSection(chs, targetType, remaining) ==
    IF Len(chs) = 0 THEN chs
    ELSE [chs EXCEPT ![1].themes =
            @ \o [m \in 1..remaining |-> NewTheme(m - 1, targetType)]]

\* variant: the new themes are put in front of the chapter's themes
AddThemesUnshift(chs, targetType, remaining) ==
    IF Len(chs) = 0 THEN chs
    ELSE [k \in 1..Len(chs) |->
            LET mine == {i \in 0..(remaining - 1) : i % Len(chs) = k - 1}
                added == [m \in 1..Cardinality(mine) |->
                             NewTheme((k - 1) + (m - 1) * Len(chs), targetType)]
            IN [chs[k] EXCEPT !.themes = added \o @]]

\* "If still need more, add new themes": theme i (0-based) is pushed to
\* chapter i % chapters.length
AddThemes(chs, targetType, remaining) ==
    IF Len(chs) = 0 THEN chs
    ELSE [k \in 1..Len(chs) |->
            LET mine == {i \in 0..(remaining - 1) : i % Len(chs) = k - 1}
                added == [m \in 1..Cardinality(mine) |->
                             NewTheme((k - 1) + (m - 1) * Len(chs), targetType)]
            IN [chs[k] EXCEPT !.themes = @ \o added]]

\* variant: the number of converted themes is not subtracted
AddBranchOvershoot(chs, targetType, diff) ==
    AddThemes(ConvertSro(chs, targetType, diff), targetType, diff)

\* variant: new themes are added while sro themes are still there
AddBranchNoConversion(chs, targetType, diff) ==
    AddThemes(chs, targetType, diff)

\* the diff > 0 branch; converted is the counter the conversion loop leaves
AddBranch(chs, targetType, diff) ==
    LET afterConvert == ConvertSro(chs, targetType, diff)
        converted == CountType(chs, "sro") - CountType(afterConvert, "sro")
    IN IF converted < diff
       THEN AddThemes(afterConvert, targetType, diff - converted)
       ELSE afterConvert

\* variant: the surplus themes are spliced out instead of retyped
RemoveBranchSplice(chs, targetType, count) ==
    [i \in 1..Len(chs) |->
        [chs[i] EXCEPT !.themes =
            SelectSeqIdx(chs[i].themes,
                LAMBDA j : ~(/\ chs[i].themes[j].normalizedType = targetType
                             /\ SeenBackward(chs, targetType, i, j) < count))]]

\* variant: the themes of a chapter are scanned from the first to the last
RemoveBranchForward(chs, targetType, count) ==
    [i \in 1..Len(chs) |->
        [chs[i] EXCEPT !.themes =
            [j \in 1..Len(chs[i].themes) |->
                LET theme == chs[i].themes[j] IN
                IF /\ theme.normalizedType = targetType
                   /\ SeenForward(chs, targetType, i, j) < count
                THEN [theme EXCEPT
                        !.normalizedType = "sro",
                        !.name = Name(theme.rawName.base, theme.rawName.num,
                                      "SRO")]
                ELSE theme]]]

RECURSIVE RemoveLoop(_, _, _, _, _, _)
\* the nested for loops of the diff < 0 branch: chapters in order, themes
\* from the last to the first, with the counter removed
RemoveLoop(chs, targetType, count, i, j, removed) ==
    IF i > Len(chs) \/ removed >= count THEN chs
    ELSE IF j < 1
    THEN RemoveLoop(chs, targetType, count, i + 1,
                    IF i + 1 <= Len(chs) THEN Len(chs[i + 1].themes) ELSE 0,
                    removed)
    ELSE LET theme == chs[i].themes[j] IN
         IF theme.normalizedType = targetType
         THEN RemoveLoop(
                 [chs EXCEPT ![i].themes[j] =
                     [theme EXCEPT
                        !.normalizedType = "sro",
                        !.name = Name(theme.rawName.base, theme.rawName.num,
                                      "SRO")]],
                 targetType, count, i, j - 1, removed + 1)
         ELSE RemoveLoop(chs, targetType, count, i, j - 1, removed)

\* the diff < 0 branch: themes become sro instead of being removed
RemoveBranch(chs, targetType, count) ==
    IF Len(chs) = 0 THEN chs
    ELSE RemoveLoop(chs, targetType, count, 1, Len(chs[1].themes), 0)

\* variant: a target of 0 is balanced like any other
BalanceTypeNoSkip(chs, counts, targetType, targetCount) ==
    LET diff == targetCount - counts[targetType] IN
    IF diff > 0 THEN AddBranch(chs, targetType, diff)
    ELSE IF diff < 0 THEN RemoveBranch(chs, targetType, -diff)
    ELSE chs

\* one iteration of "for (const [targetType, targetCount] of ...)"
BalanceType(chs, counts, targetType, targetCount) ==
    IF targetCount = 0 THEN chs
    ELSE LET diff == targetCount - counts[targetType] IN
         IF diff > 0 THEN AddBranch(chs, targetType, diff)
         ELSE IF diff < 0 THEN RemoveBranch(chs, targetType, -diff)
         ELSE chs

\* ------------------------------------------------------------- filler pass
FillerTheme ==
    [name |-> Name("Dopolnitelnaya tema dlya vyravnivaniya", 0, "SRO"),
     rawName |-> [base |-> "Dopolnitelnaya tema dlya vyravnivaniya", num |-> 0],
     label |-> Undefined,
     normalizedType |-> "sro"]

EvenFiller(chs) ==
    [i \in 1..Len(chs) |->
        LET lecCount == CountIn(chs[i].themes, "lekciya")
            labCount == CountIn(chs[i].themes, "laboratornaya")
        IN IF (lecCount + labCount) % 2 = 1
           THEN [chs[i] EXCEPT !.themes = Append(@, FillerTheme)]
           ELSE chs[i]]

\* ----------------------------------------------------------------- summary
NormalizedTypes == {"lekciya", "laboratornaya", "praktika", "sro", "konsultaciya"}

reportType(type) ==
    CASE type = "lekciya" -> "Lekciya"
      [] type = "laboratornaya" -> "Laboratornaya rabota"
      [] type = "praktika" -> "Praktika"
      [] type = "sro" -> "SRO"
      [] OTHER -> "SRO"

finalCounts(chs) ==
    [r \in {"Lekciya", "Laboratornaya rabota", "Praktika", "SRO"} |->
        SumSeq([i \in 1..Len(chs) |->
            Cardinality({j \in 1..Len(chs[i].themes) :
                reportType(chs[i].themes[j].normalizedType) = r})])]

lecturesMatch(chs) == finalCounts(chs)["Lekciya"] = lectureThemes
labsMatch(chs) == finalCounts(chs)["Laboratornaya rabota"] = labThemes
practicesMatch(chs) ==
    practiceThemes = 0 \/ finalCounts(chs)["Praktika"] = practiceThemes

MakeSummary(chs) ==
    [balancingSuccess |-> lecturesMatch(chs) /\ labsMatch(chs) /\ practicesMatch(chs),
     lecturesMatch |-> lecturesMatch(chs),
     labsMatch |-> labsMatch(chs),
     practicesMatch |-> practicesMatch(chs),
     actual |-> finalCounts(chs)]

NoSummary == [balancingSuccess |-> FALSE, lecturesMatch |-> FALSE,
              labsMatch |-> FALSE, practicesMatch |-> FALSE,
              actual |-> [r \in {"Lekciya", "Laboratornaya rabota", "Praktika", "SRO"} |-> 0]]

\* ------------------------------------------------------------------ inputs
Heading(base) == [kind |-> "heading", base |-> base, num |-> 0, label |-> NoLabel]
TextLine(base, num, label) == [kind |-> "text", base |-> base, num |-> num, label |-> label]
BlankLine == [kind |-> "blank", base |-> "", num |-> 0, label |-> NoLabel]

\* lines the completion may contain
OutlineLines ==
    {Heading("Razdel"), BlankLine}
    \cup {TextLine("Tema", 0, l) :
            l \in {"lekciya", "laboratornaya", "praktika", "SRO",
                   "konsultaciya", NoLabel}}

SeqsUpTo(S, n) == UNION {[1..k -> S] : k \in 0..n}

Outlines == SeqsUpTo(OutlineLines, MaxLines)

\* hour quotas of the discipline's work types (0 = the type is not declared)
Quotas ==
    [lecture : {2 * t : t \in 0..MaxTarget},
     lab : {2 * t : t \in 0..MaxTarget},
     practice : {2 * t : t \in 0..MaxTarget},
     sro : 0..MaxSroHours]

ZeroCounts == [t \in NormalizedTypes |-> 0]

\* names of the declared work types used by handleGenerateStructure runs
DefaultNames ==
    [lecture |-> "Lekciya", lab |-> "Laboratornaya rabota",
     practice |-> "Praktika", sro |-> "SRO"]

Null == "null"

NoResponse == [success |-> FALSE, data |-> Null, error |-> Null]

\* nothing has been answered yet
\* one hour, in the time unit of the model
Hour == 2

SettingKeys == {"developerMode", "analyticsEnabled"}

\* DEFAULT_SETTINGS, restricted to the two switches
DEFAULT_SETTINGS == [developerMode |-> "off", analyticsEnabled |-> "on"]

\* the callers of the settings code: two setSetting calls on different
\* keys, a caller of getSettings, and the options page
Processes == {"setterOne", "setterTwo", "reader", "options"}

\* chrome.storage.local before cachedSettings is written
NoCache == [present |-> FALSE, settings |-> DEFAULT_SETTINGS, lastUpdated |-> 0]

IdleProc == [pc |-> "idle", current |-> DEFAULT_SETTINGS, stamp |-> 0,
             readSync |-> FALSE, afterBoth |-> FALSE, soonAfterFallback |-> FALSE,
             fellBackAt |-> -1, age |-> 0, gets |-> 0]

LaterIdle ==
    /\ response = NoResponse
    /\ msgs = <<>>
    /\ popup = [disabled |-> FALSE, flows |-> <<>>]
    /\ sync = [k \in SettingKeys |-> "unset"]
    /\ cache = NoCache
    /\ procs = [p \in Processes |-> IdleProc]
    /\ now = Hour
    /\ events = <<>>

\* createChaptersFromStructure has not been called
CreateIdle ==
    /\ wtNames = DefaultNames
    /\ index = 0
    /\ results = <<>>
    /\ requests = <<>>
    /\ wtMaps = <<>>
    /\ timers = 0

\* ----------------------------------------------------------------- actions
Init ==
    /\ pc = "start"
    /\ workTypes \in Quotas
    /\ structure = <<>>
    /\ chapters = <<>>
    /\ currentCounts = ZeroCounts
    /\ typeIndex = 0
    /\ summary = NoSummary
    /\ LaterIdle
    /\ CreateIdle

\* "if (!workTypes.length) throw"
CheckWorkTypes ==
    /\ pc = "start"
    /\ pc' = IF workTypes.lecture = 0 /\ workTypes.lab = 0
                /\ workTypes.practice = 0 /\ workTypes.sro = 0
             THEN "thrownNoWorkTypes" ELSE "generate"
    /\ UNCHANGED <<workTypes, structure, chapters, currentCounts, typeIndex, summary, createVars, laterVars>>

\* the completion arrives; "if (!structure) throw" (<<>> is the empty string)
GenerateStructure ==
    /\ pc = "generate"
    /\ \E s \in Outlines :
          /\ structure' = s
          /\ pc' = IF s = <<>> THEN "thrownEmptyResponse" ELSE "parse"
    /\ UNCHANGED <<workTypes, chapters, currentCounts, typeIndex, summary, createVars, laterVars>>

Parse ==
    /\ pc = "parse"
    /\ chapters' = ParseLines(structure, <<>>, <<>>)
    /\ pc' = "standalone"
    /\ UNCHANGED <<workTypes, structure, currentCounts, typeIndex, summary, createVars, laterVars>>

CleanStandalone ==
    /\ pc = "standalone"
    /\ chapters' = RemoveStandalone(chapters)
    /\ pc' = "redundant"
    /\ UNCHANGED <<workTypes, structure, currentCounts, typeIndex, summary, createVars, laterVars>>

CleanRedundant ==
    /\ pc = "redundant"
    /\ chapters' = RemoveRedundant(chapters)
    /\ pc' = "normalize"
    /\ UNCHANGED <<workTypes, structure, currentCounts, typeIndex, summary, createVars, laterVars>>

\* normalise the theme types and count the current distribution
NormalizeAndCount ==
    /\ pc = "normalize"
    /\ chapters' = Normalize(chapters)
    /\ currentCounts' = [t \in NormalizedTypes |-> CountType(Normalize(chapters), t)]
    /\ typeIndex' = 1
    /\ pc' = "balance"
    /\ UNCHANGED <<workTypes, structure, summary, createVars, laterVars>>

Balance ==
    /\ pc = "balance"
    /\ chapters' = BalanceType(chapters, currentCounts, TargetTypes[typeIndex],
                               targetCounts[TargetTypes[typeIndex]])
    /\ IF typeIndex < Len(TargetTypes)
       THEN typeIndex' = typeIndex + 1 /\ pc' = "balance"
       ELSE typeIndex' = typeIndex /\ pc' = "filler"
    /\ UNCHANGED <<workTypes, structure, currentCounts, summary, createVars, laterVars>>

Filler ==
    /\ pc = "filler"
    /\ chapters' = EvenFiller(chapters)
    /\ pc' = "report"
    /\ UNCHANGED <<workTypes, structure, currentCounts, typeIndex, summary, createVars, laterVars>>

Report ==
    /\ pc = "report"
    /\ summary' = MakeSummary(chapters)
    /\ pc' = "done"
    /\ UNCHANGED <<workTypes, structure, chapters, currentCounts, typeIndex, createVars, laterVars>>

Next ==
    \/ CheckWorkTypes
    \/ GenerateStructure
    \/ Parse
    \/ CleanStandalone
    \/ CleanRedundant
    \/ NormalizeAndCount
    \/ Balance
    \/ Filler
    \/ Report

Spec == Init /\ [][Next]_vars

\* ------------------------------------------- outlines with distinct names
\* lines of an outline with independent-study sections and themes
NamedLines ==
    {Heading("Razdel"), Heading("Samostoyatelnaya rabota"), BlankLine,
     TextLine("Tema", 0, "lekciya"), TextLine("Tema", 0, "laboratornaya"),
     TextLine("Tema", 0, "SRO"), TextLine("Tema", 0, NoLabel),
     TextLine("Samostoyatelnaya rabota po teme", 0, "SRO"),
     TextLine("Samostoyatelnaya rabota", 0, NoLabel)}

\* every heading and theme line carries its line number in its words, which
\* makes all names of an outline different
NumberLines(text) ==
    [i \in 1..Len(text) |->
        IF text[i].kind = "blank" THEN text[i] ELSE [text[i] EXCEPT !.num = i]]

NamedOutlines == {NumberLines(text) : text \in SeqsUpTo(NamedLines, MaxLines)}

InitNamed ==
    /\ pc = "start"
    /\ workTypes \in {q \in Quotas : q.sro = 0}
    /\ structure = <<>>
    /\ chapters = <<>>
    /\ currentCounts = ZeroCounts
    /\ typeIndex = 0
    /\ summary = NoSummary
    /\ LaterIdle
    /\ CreateIdle

GenerateNamedStructure ==
    /\ pc = "generate"
    /\ \E s \in NamedOutlines :
          /\ structure' = s
          /\ pc' = IF s = <<>> THEN "thrownEmptyResponse" ELSE "parse"
    /\ UNCHANGED <<workTypes, chapters, currentCounts, typeIndex, summary, createVars, laterVars>>

NextNamed ==
    \/ CheckWorkTypes
    \/ GenerateNamedStructure
    \/ Parse
    \/ CleanStandalone
    \/ CleanRedundant
    \/ NormalizeAndCount
    \/ Balance
    \/ Filler
    \/ Report

SpecNamed == InitNamed /\ [][NextNamed]_vars

\* ------------------------------------------------ odd and even hour quotas
InitHours ==
    /\ pc = "start"
    /\ workTypes \in [lecture : 0..MaxHours, lab : 0..MaxHours,
                      practice : 0..MaxHours, sro : {0}]
    /\ structure = <<>>
    /\ chapters = <<>>
    /\ currentCounts = ZeroCounts
    /\ typeIndex = 0
    /\ summary = NoSummary
    /\ LaterIdle
    /\ CreateIdle

SpecHours == InitHours /\ [][Next]_vars

TypeOK ==
    /\ pc \in {"start", "generate", "parse", "standalone", "redundant",
               "normalize", "balance", "filler", "report", "done",
               "thrownNoWorkTypes", "thrownEmptyResponse"}
    /\ typeIndex \in 0..3

\* ------------------------------------------------------------------ claims
Balancing == pc \in {"balance", "filler", "report", "done"}

\* the parsed, cleaned and normalised outline of the current completion
ParsedOutline ==
    Normalize(RemoveRedundant(RemoveStandalone(ParseLines(structure, <<>>, <<>>))))

\* the balancing loop and the filler pass applied to a normalised outline
BalanceLoop(chs) ==
    LET counts == [t \in NormalizedTypes |-> CountType(chs, t)]
        one == BalanceType(chs, counts, TargetTypes[1], targetCounts[TargetTypes[1]])
        two == BalanceType(one, counts, TargetTypes[2], targetCounts[TargetTypes[2]])
    IN BalanceType(two, counts, TargetTypes[3], targetCounts[TargetTypes[3]])

Reconcile(chs) == EvenFiller(BalanceLoop(chs))

NoHeading(text) == \A i \in 1..Len(text) : text[i].kind # "heading"

\* C1: with at least one section, every type with a nonzero target that the
\* balancing loop has processed has exactly its target number of themes, and
\* keeps it while later types are processed and afterwards.
C1_TargetsReached ==
    (Balancing /\ Len(chapters) >= 1) =>
        \A k \in 1..Len(TargetTypes) :
            ((pc # "balance" \/ k < typeIndex) /\ targetCounts[TargetTypes[k]] # 0)
                => CountType(chapters, TargetTypes[k]) = targetCounts[TargetTypes[k]]

\* C1 witness: the loop is over, a lecture surplus was demoted and a lab
\* deficit was filled in an outline with a section.
C1_Witness ==
    /\ pc = "filler" /\ Len(chapters) >= 1
    /\ lectureThemes > 0 /\ currentCounts["lekciya"] > lectureThemes
    /\ labThemes > currentCounts["laboratornaya"]
    /\ CountType(chapters, "lekciya") = lectureThemes

\* C2: after the filler pass every section has an even number of lecture
\* plus lab themes.
C2_EvenSections ==
    pc \in {"report", "done"} =>
        \A i \in 1..Len(chapters) :
            (CountIn(chapters[i].themes, "lekciya")
             + CountIn(chapters[i].themes, "laboratornaya")) % 2 = 0

\* C3: balancingSuccess is the conjunction of count = target over the types
\* with a nonzero target only.
C3_SuccessOverNonzeroTargets ==
    pc = "done" =>
        (summary.balancingSuccess <=>
            \A k \in 1..Len(TargetTypes) :
                targetCounts[TargetTypes[k]] # 0 =>
                    CountType(chapters, TargetTypes[k]) = targetCounts[TargetTypes[k]])

\* C4: with at least one section the summary reports balancingSuccess = true.
C4_SuccessWithSections ==
    (pc = "done" /\ Len(chapters) >= 1) => summary.balancingSuccess

UnmetFlagsFalse ==
    /\ lectureThemes # 0 => ~summary.lecturesMatch
    /\ labThemes # 0 => ~summary.labsMatch
    /\ practiceThemes # 0 => ~summary.practicesMatch
    /\ (lectureThemes # 0 \/ labThemes # 0 \/ practiceThemes # 0)
          => ~summary.balancingSuccess

\* C5 as stated: a completion without a numbered heading, the empty one
\* included, never raises and ends with no section and the deficit reported.
C5_NeverRaises ==
    (pc \notin {"start", "generate", "thrownNoWorkTypes"} /\ NoHeading(structure)) =>
        /\ pc # "thrownEmptyResponse"
        /\ pc = "done" => (chapters = <<>> /\ UnmetFlagsFalse)

\* C5 amended: a non-empty completion without a numbered heading never raises
\* and ends with no section and every nonzero target flagged unmatched; the
\* empty completion raises.
C5_NonEmptyNeverRaises ==
    (pc \notin {"start", "generate", "thrownNoWorkTypes"} /\ NoHeading(structure)) =>
        /\ pc = "thrownEmptyResponse" <=> structure = <<>>
        /\ Balancing => chapters = <<>>
        /\ pc = "done" => UnmetFlagsFalse

\* C5 witness: a blank or heading-less completion was processed to the end
\* with a nonzero target.
C5_Witness ==
    /\ pc = "done" /\ structure # <<>> /\ NoHeading(structure)
    /\ \E i \in 1..Len(structure) : structure[i].kind = "blank"
    /\ \E i \in 1..Len(structure) : structure[i].kind = "text"
    /\ labThemes # 0 /\ ~summary.labsMatch /\ ~summary.balancingSuccess

SameRawNames(old, new) ==
    /\ Len(new) = Len(old)
    /\ \A i \in 1..Len(old) :
          /\ Len(new[i].themes) >= Len(old[i].themes)
          /\ new[i].name = old[i].name
          /\ \A j \in 1..Len(old[i].themes) :
                new[i].themes[j].rawName = old[i].themes[j].rawName

\* C6: a step of the balancing loop or of the filler pass deletes no theme:
\* every section keeps its themes in place (retyped at most) and may only
\* grow; a surplus step leaves every section's theme count unchanged and
\* only turns themes of the processed type into independent study.
C6_NoThemeDeleted ==
    [][(pc \in {"balance", "filler"}) =>
          /\ SameRawNames(chapters, chapters')
          /\ TotalThemes(chapters') >= TotalThemes(chapters)
          /\ (pc = "balance"
              /\ targetCounts[TargetTypes[typeIndex]] # 0
              /\ CountType(chapters, TargetTypes[typeIndex])
                    > targetCounts[TargetTypes[typeIndex]]) =>
                \A i \in 1..Len(chapters) :
                    /\ Len(chapters'[i].themes) = Len(chapters[i].themes)
                    /\ \A j \in 1..Len(chapters[i].themes) :
                          \/ chapters'[i].themes[j] = chapters[i].themes[j]
                          \/ /\ chapters[i].themes[j].normalizedType
                                    = TargetTypes[typeIndex]
                             /\ chapters'[i].themes[j].normalizedType = "sro"
      ]_vars

\* C6 witness: the practice surplus was just demoted, nothing was deleted.
C6_Witness ==
    /\ pc = "filler"
    /\ practiceThemes > 0 /\ currentCounts["praktika"] > practiceThemes
    /\ CountType(chapters, "sro") > currentCounts["sro"]
    /\ TotalThemes(chapters) >= TotalThemes(ParsedOutline)

TargetsMet(chs) ==
    \A k \in 1..Len(TargetTypes) :
        targetCounts[TargetTypes[k]] # 0 =>
            CountType(chs, TargetTypes[k]) = targetCounts[TargetTypes[k]]

SroPositions(chs) ==
    {<<i, j>> \in (1..Len(chs)) \X (1..MaxLines + 3 * MaxTarget + 2) :
        j <= Len(chs[i].themes) /\ chs[i].themes[j].normalizedType = "sro"}

SameStructure(old, new) ==
    /\ Len(new) = Len(old)
    /\ \A t \in NormalizedTypes : CountType(new, t) = CountType(old, t)
    /\ SroPositions(new) = SroPositions(old)
    /\ \A i \in 1..Len(old) : Len(new[i].themes) = Len(old[i].themes)

\* C7 as stated: an outline that already meets every nonzero target leaves
\* reconciliation with the same counts, the same independent-study themes
\* and the same section sizes, and so does a second reconciliation.
C7_NoStructuralChange ==
    (pc = "report" /\ TargetsMet(ParsedOutline)) =>
        /\ SameStructure(ParsedOutline, chapters)
        /\ SameStructure(chapters, Reconcile(chapters))

AllEven(chs) ==
    \A i \in 1..Len(chs) :
        (CountIn(chs[i].themes, "lekciya")
         + CountIn(chs[i].themes, "laboratornaya")) % 2 = 0

\* C7 amended: an outline that already meets every nonzero target is only
\* extended by the filler pass (one independent-study filler per section
\* with an odd lecture+lab count, nothing when all are even); no theme is
\* retyped and no placeholder is added, also on a second reconciliation.
C7_OnlyFillerAdded ==
    (pc = "report" /\ TargetsMet(ParsedOutline)) =>
        /\ chapters = EvenFiller(ParsedOutline)
        /\ Reconcile(chapters) = EvenFiller(chapters)
        /\ AllEven(ParsedOutline) =>
              (chapters = ParsedOutline /\ Reconcile(chapters) = chapters)

\* C7 witness: a satisfied outline with themes of a type whose target is 0
\* went through reconciliation.
C7_Witness ==
    /\ pc = "report" /\ TargetsMet(ParsedOutline)
    /\ lectureThemes > 0 /\ labThemes = 0
    /\ CountType(ParsedOutline, "laboratornaya") > 0
    /\ AllEven(ParsedOutline)

ClosedTypes == {"lekciya", "laboratornaya", "praktika", "sro"}

\* C9: after normalisation every normalizedType is one of the four types,
\* and a theme with a missing label or a label that is none of the
\* lecture/lab/practice/independent-study labels is independent study.
C9_FourTypes ==
    Balancing =>
        \A i \in 1..Len(chapters) : \A j \in 1..Len(chapters[i].themes) :
            /\ chapters[i].themes[j].normalizedType \in ClosedTypes
            /\ (pc = "balance" /\ typeIndex = 1
                /\ chapters[i].themes[j].label
                      \notin {"lekciya", "laboratornaya", "lab", "praktika",
                              "prakticheskaya", "sro"})
                  => chapters[i].themes[j].normalizedType = "sro"

IsPlaceholder(theme) == theme.rawName.base = "Dopolnitelnaya tema"

Placeholders(chs, type) ==
    SumSeq([i \in 1..Len(chs) |->
        Cardinality({j \in 1..Len(chs[i].themes) :
            /\ IsPlaceholder(chs[i].themes[j])
            /\ chs[i].themes[j].normalizedType = type})])

\* C10: a step of the balancing loop that appends placeholders of type T
\* leaves no independent-study theme behind, and appends exactly the deficit
\* of T minus the number of independent-study themes present before the step.
C10_SynthesisAfterConversion ==
    [][(pc = "balance" /\ TotalThemes(chapters') > TotalThemes(chapters)) =>
          LET T == TargetTypes[typeIndex]
              deficit == targetCounts[T] - CountType(chapters, T)
          IN /\ CountType(chapters', "sro") = 0
             /\ TotalThemes(chapters') - TotalThemes(chapters)
                   = deficit - CountType(chapters, "sro")
             /\ Placeholders(chapters', T) - Placeholders(chapters, T)
                   = deficit - CountType(chapters, "sro")
      ]_vars

\* C10 witness: placeholders of the lab type stand next to a theme that was
\* converted from independent study to lab.
C10_Witness ==
    /\ pc = "balance" /\ typeIndex = 3
    /\ Placeholders(chapters, "laboratornaya") > 0
    /\ currentCounts["sro"] > 0
    /\ \E i \in 1..Len(chapters) : \E j \in 1..Len(chapters[i].themes) :
          /\ ~IsPlaceholder(chapters[i].themes[j])
          /\ chapters[i].themes[j].normalizedType = "laboratornaya"
          /\ chapters[i].themes[j].label \in {Undefined, "sro"}

TypePositions(chs, type) ==
    UNION {{<<i, j>> : j \in {m \in 1..Len(chs[i].themes) :
                                chs[i].themes[m].normalizedType = type}} :
           i \in 1..Len(chs)}

AllTargetsZero == lectureThemes = 0 /\ labThemes = 0 /\ practiceThemes = 0

\* C11: the iteration of a type whose target is 0 changes nothing, no step of
\* the balancing loop or of the filler pass changes which themes have a
\* zero-target type, and with all three targets 0 every existing theme stays
\* as it is, only filler themes being appended.
C11_ZeroTargetSkipped ==
    [][(pc \in {"balance", "filler"}) =>
          /\ \A k \in 1..Len(TargetTypes) :
                targetCounts[TargetTypes[k]] = 0 =>
                    TypePositions(chapters', TargetTypes[k])
                        = TypePositions(chapters, TargetTypes[k])
          /\ (pc = "balance" /\ targetCounts[TargetTypes[typeIndex]] = 0)
                => chapters' = chapters
          /\ AllTargetsZero =>
                /\ Len(chapters') = Len(chapters)
                /\ \A i \in 1..Len(chapters) :
                      /\ Len(chapters'[i].themes) >= Len(chapters[i].themes)
                      /\ \A j \in 1..Len(chapters'[i].themes) :
                            IF j <= Len(chapters[i].themes)
                            THEN chapters'[i].themes[j] = chapters[i].themes[j]
                            ELSE chapters'[i].themes[j] = FillerTheme
      ]_vars

\* C11 witness: the loop is over, the lab target is 0 and lab themes are
\* there, while the lecture count had to be changed.
C11_Witness ==
    /\ pc = "filler"
    /\ labThemes = 0 /\ CountType(chapters, "laboratornaya") > 0
    /\ lectureThemes > 0 /\ currentCounts["lekciya"] # lectureThemes

AddedBases == {"Dopolnitelnaya tema", "Dopolnitelnaya tema dlya vyravnivaniya"}

\* C12: during and after reconciliation the sections are those of the parsed
\* outline, same number, names and order; every parsed theme is still at its
\* position in its section; every theme behind them is an added placeholder
\* or filler.
C12_StructurePreserved ==
    Balancing =>
        /\ Len(chapters) = Len(ParsedOutline)
        /\ \A i \in 1..Len(chapters) :
              /\ chapters[i].name = ParsedOutline[i].name
              /\ Len(chapters[i].themes) >= Len(ParsedOutline[i].themes)
              /\ \A j \in 1..Len(chapters[i].themes) :
                    IF j <= Len(ParsedOutline[i].themes)
                    THEN chapters[i].themes[j].rawName
                            = ParsedOutline[i].themes[j].rawName
                    ELSE chapters[i].themes[j].rawName.base \in AddedBases

\* C12 witness: two sections, one of them with a parsed theme followed by an
\* added theme, and a parsed theme that was retyped.
C12_Witness ==
    /\ pc = "report" /\ Len(chapters) = 2
    /\ \E i \in 1..2 :
          /\ Len(ParsedOutline[i].themes) >= 1
          /\ Len(chapters[i].themes) > Len(ParsedOutline[i].themes)
          /\ chapters[i].themes[1].normalizedType
                # ParsedOutline[i].themes[1].normalizedType

HeadingIdx(text) == {i \in 1..Len(text) : text[i].kind = "heading"}

\* the k-th heading line of the text
KthHeading(text, k) ==
    CHOOSE i \in HeadingIdx(text) :
        Cardinality({h \in HeadingIdx(text) : h < i}) = k - 1

\* the non-blank non-heading lines whose most recent heading is line h
LinesUnder(text, h) ==
    {i \in (h + 1)..Len(text) :
        /\ text[i].kind = "text"
        /\ \A m \in (h + 1)..i : text[m].kind # "heading"}

LineName(line) == Name(line.base, line.num, line.label)

\* C13: right after parsing there is one section per heading line, in heading
\* order, the last one included; the themes of a section are the non-blank
\* lines between its heading and the next one, in line order; lines before
\* the first heading are in no section.
C13_ParserSections ==
    pc = "standalone" =>
        /\ Len(chapters) = Cardinality(HeadingIdx(structure))
        /\ \A k \in 1..Len(chapters) :
              LET h == KthHeading(structure, k)
                  under == LinesUnder(structure, h)
                  themes == chapters[k].themes
              IN /\ chapters[k].name = LineName(structure[h])
                 /\ Len(themes) = Cardinality(under)
                 /\ \A j \in 1..Len(themes) :
                       /\ themes[j].name.num \in under
                       /\ themes[j].name = LineName(structure[themes[j].name.num])
                       /\ \A m \in 1..(j - 1) :
                             themes[m].name.num < themes[j].name.num

\* C13 witness: a theme line before the first heading, then a heading with a
\* theme under it, parsed into one section with one theme.
C13_Witness ==
    /\ pc = "standalone" /\ Len(structure) = 3
    /\ structure[1].kind = "text" /\ structure[2].kind = "heading"
    /\ structure[3].kind = "text"
    /\ Len(chapters) = 1 /\ Len(chapters[1].themes) = 1

RawParsed == ParseLines(structure, <<>>, <<>>)

\* sections whose name and all of whose themes are independent-study wording
SroSections(chs) ==
    {i \in 1..Len(chs) :
        /\ IncludesSamost(chs[i].name)
        /\ \A j \in 1..Len(chs[i].themes) :
              IncludesSamost(chs[i].themes[j].name)
              \/ IncludesSro(chs[i].themes[j].name)}

KeptSections(chs) == (1..Len(chs)) \ SroSections(chs)

KthKept(chs, k) ==
    CHOOSE i \in KeptSections(chs) :
        Cardinality({h \in KeptSections(chs) : h < i}) = k - 1

ThemeWords(chs, sections) ==
    UNION {{<<chs[i].themes[j].name.base, chs[i].themes[j].name.num>> :
               j \in 1..Len(chs[i].themes)} :
           i \in sections}

\* C14: from the first cleanup step on, the sections are exactly the parsed
\* sections that are not independent-study sections, in their order (and with
\* their themes right after the step); no theme of a removed section is
\* left, and the counts taken before balancing are those of the kept themes.
C14_StandaloneRemoved ==
    (pc \in {"redundant", "normalize"} \/ Balancing) =>
        /\ Len(chapters) = Cardinality(KeptSections(RawParsed))
        /\ \A k \in 1..Len(chapters) :
              /\ chapters[k].name = RawParsed[KthKept(RawParsed, k)].name
              /\ pc = "redundant" => chapters[k] = RawParsed[KthKept(RawParsed, k)]
        /\ ThemeWords(chapters, 1..Len(chapters))
              \cap ThemeWords(RawParsed, SroSections(RawParsed)) = {}
        /\ (pc = "balance" /\ typeIndex = 1) =>
              \A t \in NormalizedTypes : currentCounts[t] = CountType(chapters, t)

\* C14 witness: an independent-study section with a theme was removed in
\* front of a section that was kept, and the counts were taken.
C14_Witness ==
    /\ pc = "balance" /\ typeIndex = 1
    /\ Len(RawParsed) = 2 /\ Len(chapters) = 1
    /\ SroSections(RawParsed) = {1}
    /\ Len(RawParsed[1].themes) = 1

ProjectedHours(r) == 2 * summary.actual[r]

\* C16 as stated: when balancingSuccess is true the projected hours of
\* lecture, lab and practice equal their declared hour quotas.
C16_HoursEqualQuota ==
    (pc = "done" /\ summary.balancingSuccess) =>
        /\ ProjectedHours("Lekciya") = workTypes.lecture
        /\ ProjectedHours("Laboratornaya rabota") = workTypes.lab
        /\ ProjectedHours("Praktika") = workTypes.practice

\* C16 amended: when balancingSuccess is true the projected hours of lecture
\* and lab equal the quota rounded down to an even number, and so do those
\* of practice when its target is nonzero.
C16_HoursEqualEvenQuota ==
    (pc = "done" /\ summary.balancingSuccess) =>
        /\ ProjectedHours("Lekciya") = workTypes.lecture - (workTypes.lecture % 2)
        /\ ProjectedHours("Laboratornaya rabota") = workTypes.lab - (workTypes.lab % 2)
        /\ practiceThemes # 0 =>
              ProjectedHours("Praktika") = workTypes.practice - (workTypes.practice % 2)

\* C16 witness: success with an odd lecture quota and an even lab quota, the
\* lecture themes having been added by the balancing loop.
C16_Witness ==
    /\ pc = "done" /\ summary.balancingSuccess
    /\ workTypes.lecture = 3 /\ workTypes.lab = 2
    /\ Len(chapters) >= 1 /\ currentCounts["lekciya"] = 0
    /\ summary.actual["Lekciya"] = 1

\* ------------------------------------------- createChaptersFromStructure
MaxSroQuota == 4
MaxSections == 3

\* the declared work types in the order of the workTypes array
WorkTypeIds == <<"lecture", "lab", "practice", "sro">>

\* wt.name.toLowerCase().includes(needle) on the work-type names of the model
NameIncludes(name, needle) ==
    needle \in (CASE name = "Lekciya" -> {"lekci", "lekciya"}
                  [] name = "Lekcii" -> {"lekci"}
                  [] name = "Laboratornaya rabota" -> {"labor", "laboratornaya"}
                  [] name = "Praktika" -> {"prakt", "praktika"}
                  [] name = "SRO" -> {"sro"}
                  [] name = "Samostoyatelnaya rabota" -> {"samostoyateln"}
                  [] name = "Self study" -> {"self"}
                  [] name = "Independent work" -> {"independent"}
                  [] OTHER -> {})

\* names the curriculum can give to the independent-study work type
SroNames == {"SRO", "Samostoyatelnaya rabota", "Self study", "Independent work"}

\* data.workTypes: the work types with hours > 0, as the summary lists them
DeclaredWorkTypes == SelectSeq(WorkTypeIds, LAMBDA k : workTypes[k] > 0)

\* resolveWorkTypes: the first declared work type whose name includes the
\* target of the lower-cased label, as a list of zero or one work types
resolveWorkTypes(label) ==
    LET normalized == IF label = Undefined THEN Undefined ELSE Lower(label)
        target == mapWorkTypeLabel(normalized)
        matches == SelectSeq(DeclaredWorkTypes,
                             LAMBDA k : NameIncludes(wtNames[k], target))
    IN IF target = Undefined \/ matches = <<>> THEN <<>> ELSE <<Head(matches)>>

\* the work type the distribution step takes for independent study
sroWorkType ==
    LET matches == SelectSeq(DeclaredWorkTypes,
                             LAMBDA k : \/ NameIncludes(wtNames[k], "sro")
                                        \/ NameIncludes(wtNames[k], "samostoyateln")
                                        \/ NameIncludes(wtNames[k], "self")
                                        \/ NameIncludes(wtNames[k], "independent"))
    IN IF matches = <<>> THEN <<>> ELSE <<Head(matches)>>

\* variant: the remainder of the division is dropped
sroHoursNoRemainder(targetSroHours, n, i) ==
    IF targetSroHours < n
    THEN IF i < targetSroHours THEN 1 ELSE 0
    ELSE targetSroHours \div n

\* variant: the remainder goes to the first section
sroHoursRemainderFirst(targetSroHours, n, i) ==
    IF targetSroHours < n
    THEN IF i < targetSroHours THEN 1 ELSE 0
    ELSE (targetSroHours \div n) + (IF i = 0 THEN targetSroHours % n ELSE 0)

\* the independent-study hours of the section at (0-based) index i of n
sroHoursForThisChapter(targetSroHours, n, i) ==
    IF targetSroHours < n
    THEN IF i < targetSroHours THEN 1 ELSE 0
    ELSE (targetSroHours \div n) + (IF i = n - 1 THEN targetSroHours % n ELSE 0)

\* the themes of a section with the trailing parenthetical split off
parsedThemes(ch) ==
    [i \in 1..Len(ch.themes) |->
        [name |-> <<ch.themes[i].name.base, ch.themes[i].name.num>>,
         order |-> i,
         label |-> IF ch.themes[i].name.label = NoLabel THEN Undefined
                   ELSE ch.themes[i].name.label]]

\* wtMap of the section at index i: theme counts per resolved work type,
\* then the independent-study entry set to the section's share of hours
wtMap(i) ==
    LET themes == parsedThemes(chapters[i + 1])
        ThemesOf(k) == {j \in 1..Len(themes) : resolveWorkTypes(themes[j].label) = <<k>>}
        counted == {k \in {"lecture", "lab", "practice", "sro"} : ThemesOf(k) # {}}
    IN IF sroWorkType # <<>> /\ workTypes[sroWorkType[1]] > 0
       THEN [k \in counted \cup {sroWorkType[1]} |->
                IF k = sroWorkType[1]
                THEN sroHoursForThisChapter(workTypes[k], Len(chapters), i)
                ELSE Cardinality(ThemesOf(k))]
       ELSE [k \in counted |-> Cardinality(ThemesOf(k))]

\* isSRO of the payload construction
isSRO(k) ==
    NameIncludes(wtNames[k], "sro") \/ NameIncludes(wtNames[k], "samostoyateln")

\* the payload of the section at index i
Payload(i) ==
    LET themes == parsedThemes(chapters[i + 1])
        w == wtMap(i)
    IN [order |-> i + 1,
        name |-> chapters[i + 1].name,
        themes |-> [j \in 1..Len(themes) |->
                       [name |-> themes[j].name, order |-> themes[j].order]],
        program_work_types |->
            [k \in DOMAIN w |-> IF isSRO(k) THEN w[k] ELSE w[k] * 2]]

\* fetchDisciplineInfo answers: a content id is found or the call throws
FetchContentId ==
    /\ pc = "createStart"
    /\ pc' \in {"createLoop", "thrownNoContentId"}
    /\ UNCHANGED <<workTypes, structure, chapters, currentCounts, typeIndex,
                   summary, createVars, laterVars>>

\* loop test passed: build the payload and call ItmoApiService.createChapter
SubmitChapter ==
    /\ pc = "createLoop"
    /\ index < Len(chapters)
    /\ wtMaps' = Append(wtMaps, wtMap(index))
    /\ requests' = Append(requests, Payload(index))
    /\ pc' = "createAwait"
    /\ UNCHANGED <<workTypes, structure, chapters, currentCounts, typeIndex,
                   summary, wtNames, index, results, timers, laterVars>>

\* variant: the next iteration starts as soon as the call returns
ChapterCreatedNoDelay ==
    /\ pc = "createAwait"
    /\ results' = Append(results, [order |-> requests[Len(requests)].order])
    /\ index' = index + 1
    /\ pc' = "createLoop"
    /\ UNCHANGED <<workTypes, structure, chapters, currentCounts, typeIndex,
                   summary, wtNames, requests, wtMaps, timers, laterVars>>

\* createChapter resolves: push the created chapter, start the 300 ms timer
ChapterCreated ==
    /\ pc = "createAwait"
    /\ results' = Append(results, [order |-> requests[Len(requests)].order])
    /\ pc' = "createDelay"
    /\ UNCHANGED <<workTypes, structure, chapters, currentCounts, typeIndex,
                   summary, wtNames, index, requests, wtMaps, timers, laterVars>>

\* createChapter rejects: the exception leaves createChaptersFromStructure
ChapterFailed ==
    /\ pc = "createAwait"
    /\ pc' = "thrownCreateFailed"
    /\ UNCHANGED <<workTypes, structure, chapters, currentCounts, typeIndex,
                   summary, createVars, laterVars>>

\* the 300 ms timer fires: index++ and back to the loop test
DelayElapsed ==
    /\ pc = "createDelay"
    /\ timers' = timers + 1
    /\ index' = index + 1
    /\ pc' = "createLoop"
    /\ UNCHANGED <<workTypes, structure, chapters, currentCounts, typeIndex,
                   summary, wtNames, results, requests, wtMaps, laterVars>>

\* loop test failed: return results
ReturnResults ==
    /\ pc = "createLoop"
    /\ index >= Len(chapters)
    /\ pc' = "created"
    /\ UNCHANGED <<workTypes, structure, chapters, currentCounts, typeIndex,
                   summary, createVars, laterVars>>

\* error.message of the exception a handler has thrown
ErrorMessage(at) ==
    CASE at = "thrownNoWorkTypes" -> "Ne udalos poluchit tipy rabot iz discipliny"
      [] at = "thrownEmptyResponse" -> "Pustoj otvet ot OpenAI"
      [] at = "thrownNoContentId" -> "Ne udalos poluchit contentId"
      [] at = "thrownCreateFailed" -> "No response from content script"

Thrown == {"thrownNoWorkTypes", "thrownEmptyResponse", "thrownNoContentId",
           "thrownCreateFailed"}

\* listener: createChaptersFromStructure returned,
\* sendResponse(createResponse(true, result))
SendResponse ==
    /\ pc = "created"
    /\ response' = [success |-> TRUE, data |-> results, error |-> Null]
    /\ pc' = "responded"
    /\ UNCHANGED <<workTypes, structure, chapters, currentCounts, typeIndex,
                   summary, createVars, otherVars>>

\* variant: the catch block answers with the results collected so far
SendPartialResults ==
    /\ pc \in Thrown
    /\ response' = [success |-> TRUE, data |-> results, error |-> Null]
    /\ pc' = "responded"
    /\ UNCHANGED <<workTypes, structure, chapters, currentCounts, typeIndex,
                   summary, createVars, otherVars>>

\* listener: the handler threw,
\* sendResponse(createResponse(false, null, error.message || "Unknown error occurred"))
SendErrorResponse ==
    /\ pc \in Thrown
    /\ response' = [success |-> FALSE, data |-> Null,
                    error |-> IF ErrorMessage(pc) = "" THEN "Unknown error occurred"
                              ELSE ErrorMessage(pc)]
    /\ pc' = "respondedError"
    /\ UNCHANGED <<workTypes, structure, chapters, currentCounts, typeIndex,
                   summary, createVars, otherVars>>

\* hour quotas of the discipline's work types (0 = the type is not declared)
CreateQuotas ==
    [lecture : {2 * t : t \in 0..MaxTarget},
     lab : {0, 2},
     practice : {0, 2},
     sro : 0..MaxSroQuota]

\* the themes the completion lists under one section heading
SectionThemes ==
    {<<>>,
     <<TextLine("Tema", 0, "lekciya")>>,
     <<TextLine("Tema", 0, "lekciya"), TextLine("Tema", 0, "laboratornaya")>>,
     <<TextLine("Tema", 0, "SRO")>>}

RECURSIVE Flatten(_)
Flatten(ss) == IF ss = <<>> THEN <<>> ELSE Head(ss) \o Flatten(Tail(ss))

\* completions of 1..MaxSections sections, and one without any heading
CreateOutlines ==
    {<<TextLine("Tema", 0, "lekciya")>>}
    \cup {Flatten([i \in 1..Len(ss) |-> <<Heading("Razdel")>> \o ss[i]]) :
            ss \in UNION {[1..k -> SectionThemes] : k \in 1..MaxSections}}

\* the popup asks for an outline of a discipline with these work types
InitCreate ==
    /\ pc = "start"
    /\ workTypes \in CreateQuotas
    /\ wtNames \in {[DefaultNames EXCEPT !.sro = n] : n \in SroNames}
    /\ structure = <<>>
    /\ chapters = <<>>
    /\ currentCounts = ZeroCounts
    /\ typeIndex = 0
    /\ summary = NoSummary
    /\ LaterIdle
    /\ index = 0
    /\ results = <<>>
    /\ requests = <<>>
    /\ wtMaps = <<>>
    /\ timers = 0

GenerateSectionedStructure ==
    /\ pc = "generate"
    /\ \E s \in CreateOutlines \cup {<<>>} :
          /\ structure' = s
          /\ pc' = IF s = <<>> THEN "thrownEmptyResponse" ELSE "parse"
    /\ UNCHANGED <<workTypes, chapters, currentCounts, typeIndex, summary, createVars, laterVars>>

\* the popup shows the summary, the user confirms, and the popup sends
\* chapters and summary.workTypes to createChaptersFromStructure; the locals
\* of the finished handleGenerateStructure call are gone
ConfirmStructure ==
    /\ pc = "done"
    /\ pc' = "createStart"
    /\ structure' = <<>>
    /\ currentCounts' = ZeroCounts
    /\ typeIndex' = 0
    /\ UNCHANGED <<workTypes, chapters, summary, createVars, laterVars>>

NextCreate ==
    \/ CheckWorkTypes
    \/ GenerateSectionedStructure
    \/ Parse
    \/ CleanStandalone
    \/ CleanRedundant
    \/ NormalizeAndCount
    \/ Balance
    \/ Filler
    \/ Report
    \/ ConfirmStructure
    \/ FetchContentId
    \/ SubmitChapter
    \/ ChapterCreated
    \/ ChapterFailed
    \/ DelayElapsed
    \/ ReturnResults
    \/ SendResponse
    \/ SendErrorResponse

SpecCreate == InitCreate /\ [][NextCreate]_vars

CreateTypeOK ==
    /\ pc \in {"start", "generate", "parse", "standalone", "redundant",
               "normalize", "balance", "filler", "report", "done",
               "thrownNoWorkTypes", "thrownEmptyResponse",
               "createStart", "createLoop", "createAwait", "createDelay",
               "created", "thrownNoContentId", "thrownCreateFailed",
               "responded", "respondedError"}
    /\ index \in 0..Len(chapters)
    /\ Len(results) <= Len(chapters)

\* C15: with n >= 1 sections and an independent-study quota q > 0, the
\* wtMap of the section at position k holds for independent study: 1 for
\* k <= q and 0 for the rest if q < n; otherwise floor(q / n), and
\* floor(q / n) + q mod n for the last section.
C15_SroDistribution ==
    \A k \in 1..Len(wtMaps) :
        LET n == Len(chapters)
            q == workTypes.sro
        IN q > 0 =>
              /\ "sro" \in DOMAIN wtMaps[k]
              /\ wtMaps[k]["sro"] =
                    IF q < n THEN (IF k <= q THEN 1 ELSE 0)
                    ELSE IF k = n THEN (q \div n) + (q % n)
                    ELSE q \div n

C15_Witness ==
    /\ pc = "created"
    /\ Len(chapters) = 3 /\ workTypes.sro = 4
    /\ Len(wtMaps) = 3
    /\ wtMaps[1]["sro"] = 1 /\ wtMaps[3]["sro"] = 2

\* C17: in every submitted payload the hours of the work type that the
\* distribution step takes for independent study equal that section's share
\* of the quota, and the hours of every other work type equal twice the
\* number of themes counted for it.
C17_SroHoursNotDoubled ==
    \A k \in 1..Len(requests) :
        \A t \in DOMAIN requests[k].program_work_types :
            requests[k].program_work_types[t] =
                IF sroWorkType = <<t>> THEN wtMaps[k][t] ELSE 2 * wtMaps[k][t]

\* C18: the payloads sent so far are those of the first sections, each once,
\* in order, with order = position; at most one call is in flight; a
\* submission starts only when every earlier call has returned and its delay
\* has elapsed; on return there is one result per section.
C18_Sequential ==
    /\ [](/\ Len(requests) <= Len(chapters)
          /\ \A k \in 1..Len(requests) :
                /\ requests[k].order = k
                /\ requests[k].name = chapters[k].name
                /\ Len(requests[k].themes) = Len(chapters[k].themes)
          /\ Len(results) <= Len(requests)
          /\ Len(requests) <= Len(results) + 1
          /\ (pc = "created" =>
                /\ Len(requests) = Len(chapters)
                /\ Len(results) = Len(chapters)))
    /\ [][Len(requests') > Len(requests) =>
            /\ Len(requests') = Len(requests) + 1
            /\ Len(results) = Len(requests)
            /\ timers = Len(requests)]_vars

C18_Witness ==
    /\ pc = "created"
    /\ Len(chapters) = 3
    /\ Len(results) = 3 /\ timers = 3
    /\ requests[3].order = 3

\* ------------------------------------- deficits larger than the section count
\* a discipline whose lecture target can exceed the number of sections
InitDeficit ==
    /\ pc = "start"
    /\ workTypes \in [lecture : {2 * t : t \in 0..(MaxTarget + 1)},
                      lab : {0, 2}, practice : {0}, sro : {0}]
    /\ structure = <<>>
    /\ chapters = <<>>
    /\ currentCounts = ZeroCounts
    /\ typeIndex = 0
    /\ summary = NoSummary
    /\ LaterIdle
    /\ CreateIdle

NextDeficit ==
    \/ CheckWorkTypes
    \/ GenerateSectionedStructure
    \/ Parse
    \/ CleanStandalone
    \/ CleanRedundant
    \/ NormalizeAndCount
    \/ Balance
    \/ Filler
    \/ Report

SpecDeficit == InitDeficit /\ [][NextDeficit]_vars

\* C21: a step of the balancing loop that appends r > 0 placeholders of type
\* T to n >= 1 sections puts placeholder i (i = 0..r-1), numbered i + 1,
\* behind the themes of section (i mod n), in the order of i; two sections
\* receive numbers of placeholders that differ by at most 1, the earlier
\* section never fewer.
C21_RoundRobin ==
    [][(pc = "balance" /\ TotalThemes(chapters') > TotalThemes(chapters)) =>
          LET T == TargetTypes[typeIndex]
              n == Len(chapters)
              r == TotalThemes(chapters') - TotalThemes(chapters)
              Received(k) == Len(chapters'[k].themes) - Len(chapters[k].themes)
          IN /\ n >= 1 /\ Len(chapters') = n
             /\ \A i \in 0..(r - 1) :
                   LET k == (i % n) + 1
                       j == Len(chapters[k].themes) + (i \div n) + 1
                   IN /\ j <= Len(chapters'[k].themes)
                      /\ chapters'[k].themes[j].name
                            = Name("Dopolnitelnaya tema", i + 1, T)
                      /\ chapters'[k].themes[j].rawName
                            = [base |-> "Dopolnitelnaya tema", num |-> i + 1]
                      /\ chapters'[k].themes[j].normalizedType = T
             /\ \A k1, k2 \in 1..n :
                   k1 < k2 => Received(k1) - Received(k2) \in {0, 1}
      ]_vars

\* C21 witness: three lecture placeholders over two empty sections, the first
\* section holds numbers 1 and 3 and the second holds number 2.
C21_Witness ==
    /\ pc = "done"
    /\ workTypes.lecture = 6 /\ workTypes.lab = 0
    /\ Len(chapters) = 2
    /\ Len(chapters[1].themes) = 2 /\ Len(chapters[2].themes) >= 1
    /\ chapters[1].themes[1].rawName = [base |-> "Dopolnitelnaya tema", num |-> 1]
    /\ chapters[1].themes[2].rawName = [base |-> "Dopolnitelnaya tema", num |-> 3]
    /\ chapters[2].themes[1].rawName = [base |-> "Dopolnitelnaya tema", num |-> 2]

\* hours of the work type behind a target type (0 = not declared)
QuotaHours(t) ==
    CASE t = "lekciya" -> workTypes.lecture
      [] t = "laboratornaya" -> workTypes.lab
      [] t = "praktika" -> workTypes.practice

\* C22: the target the balancing loop uses for lecture, lab and practice is
\* the largest whole number of 2-hour themes that fits into the declared
\* hours of that type, and 0 when the type has no hours.
C22_TargetIsHalfQuota ==
    Balancing =>
        \A k \in 1..Len(TargetTypes) :
            LET t == TargetTypes[k]
                target == targetCounts[t]
            IN /\ target >= 0
               /\ 2 * target <= QuotaHours(t)
               /\ QuotaHours(t) < 2 * target + 2
               /\ QuotaHours(t) = 0 => target = 0

\* C22 witness: odd lecture hours, a lab type that is not declared and a
\* single practice hour, met by the balancing loop.
C22_Witness ==
    /\ pc = "balance" /\ typeIndex = 2
    /\ workTypes.lecture = 3 /\ workTypes.lab = 0 /\ workTypes.practice = 1
    /\ targetCounts["lekciya"] = 1
    /\ targetCounts["laboratornaya"] = 0
    /\ targetCounts["praktika"] = 0
    /\ CountType(chapters, "lekciya") = 1

\* --------------------------------- labels as the completion may write them
\* themes under a heading: a label with a capital and a trailing blank, the
\* short lab label, no label at all
LabelledThemes ==
    {<<>>,
     <<TextLine("Tema", 0, "Lekciya ")>>,
     <<TextLine("Tema", 0, "lekciya"), TextLine("Tema", 0, "lab")>>,
     <<TextLine("Tema", 0, NoLabel)>>}

LabelledOutlines ==
    {Flatten([i \in 1..Len(ss) |-> <<Heading("Razdel")>> \o ss[i]]) :
        ss \in UNION {[1..k -> LabelledThemes] : k \in 1..MaxSections}}

\* the lecture work type is named in the singular or in the plural
InitRederive ==
    /\ pc = "start"
    /\ workTypes \in [lecture : {2 * t : t \in 0..MaxTarget},
                      lab : {0, 2}, practice : {0}, sro : {0, 1}]
    /\ wtNames \in {[DefaultNames EXCEPT !.lecture = n] : n \in {"Lekciya", "Lekcii"}}
    /\ structure = <<>>
    /\ chapters = <<>>
    /\ currentCounts = ZeroCounts
    /\ typeIndex = 0
    /\ summary = NoSummary
    /\ LaterIdle
    /\ index = 0
    /\ results = <<>>
    /\ requests = <<>>
    /\ wtMaps = <<>>
    /\ timers = 0

GenerateLabelledStructure ==
    /\ pc = "generate"
    /\ \E s \in LabelledOutlines \cup {<<>>} :
          /\ structure' = s
          /\ pc' = IF s = <<>> THEN "thrownEmptyResponse" ELSE "parse"
    /\ UNCHANGED <<workTypes, chapters, currentCounts, typeIndex, summary, createVars, laterVars>>

NextRederive ==
    \/ CheckWorkTypes
    \/ GenerateLabelledStructure
    \/ Parse
    \/ CleanStandalone
    \/ CleanRedundant
    \/ NormalizeAndCount
    \/ Balance
    \/ Filler
    \/ Report
    \/ ConfirmStructure
    \/ FetchContentId
    \/ SubmitChapter
    \/ ChapterCreated
    \/ ChapterFailed
    \/ DelayElapsed
    \/ ReturnResults
    \/ SendResponse
    \/ SendErrorResponse

SpecRederive == InitRederive /\ [][NextRederive]_vars

\* the declared work type a normalizedType stands for, as a list of 0 or 1
WorkTypeOf(type) ==
    LET k == CASE type = "lekciya" -> "lecture"
               [] type = "laboratornaya" -> "lab"
               [] type = "praktika" -> "practice"
               [] type = "sro" -> "sro"
               [] OTHER -> "none"
    IN IF k # "none" /\ workTypes[k] > 0 THEN <<k>> ELSE <<>>

SubmittedHours(t) ==
    SumSeq([k \in 1..Len(requests) |->
        IF t \in DOMAIN requests[k].program_work_types
        THEN requests[k].program_work_types[t] ELSE 0])

\* C23: for every theme of a submitted section the work type resolved from
\* the trailing parenthetical of its name is the work type of its
\* normalizedType; when all sections are submitted, the hours sent for each
\* declared work type of lecture, lab and practice sum to twice the final
\* count of that type in the summary.
C23_RederivedTypes ==
    /\ \A k \in 1..Len(requests) : \A j \in 1..Len(chapters[k].themes) :
          resolveWorkTypes(parsedThemes(chapters[k])[j].label)
             = WorkTypeOf(chapters[k].themes[j].normalizedType)
    /\ pc = "created" =>
          /\ workTypes.lecture > 0 =>
                SubmittedHours("lecture") = 2 * summary.actual["Lekciya"]
          /\ workTypes.lab > 0 =>
                SubmittedHours("lab") = 2 * summary.actual["Laboratornaya rabota"]
          /\ workTypes.practice > 0 =>
                SubmittedHours("practice") = 2 * summary.actual["Praktika"]

\* the independent-study hours assigned to the sections handled so far
AssignedSro == SumSeq([k \in 1..Len(wtMaps) |-> wtMaps[k]["sro"]])

\* C24: with an independent-study quota q > 0 every section is assigned a
\* number of hours >= 0, never more than q in total, and once all n >= 1
\* sections have been handled the assigned hours sum to q.
C24_SroSumsToQuota ==
    workTypes.sro > 0 =>
        /\ \A k \in 1..Len(wtMaps) :
              "sro" \in DOMAIN wtMaps[k] /\ wtMaps[k]["sro"] >= 0
        /\ AssignedSro <= workTypes.sro
        /\ (Len(wtMaps) = Len(chapters) /\ Len(chapters) >= 1) =>
              AssignedSro = workTypes.sro

\* C24 witness: a quota of 2 over three sections (1 + 1 + 0), all submitted.
C24_Witness ==
    /\ pc = "created"
    /\ workTypes.sro = 2 /\ Len(chapters) = 3 /\ Len(wtMaps) = 3
    /\ wtMaps[2]["sro"] = 1 /\ wtMaps[3]["sro"] = 0

\* the createChapter call of the section at the last position sent rejected
CreateFailed ==
    \/ pc = "thrownCreateFailed"
    \/ /\ pc = "respondedError"
       /\ response.error = ErrorMessage("thrownCreateFailed")

\* C25: once the submission of section k has failed, the payloads sent are
\* those of sections 1..k, each once, the results are those of sections
\* 1..k-1, nothing is sent or added afterwards, and the response has
\* success = false, no data and the error text; a response with success =
\* true always carries one result per section.
C25_FailureStopsSubmission ==
    /\ [](CreateFailed =>
            /\ Len(requests) = Len(results) + 1
            /\ \A j \in 1..Len(requests) : requests[j].order = j
            /\ pc = "respondedError" =>
                  /\ ~response.success
                  /\ response.data = Null
                  /\ response.error # "" /\ response.error # Null)
    /\ []((response # NoResponse /\ response.success) =>
            Len(response.data) = Len(chapters))
    /\ [][CreateFailed =>
            /\ requests' = requests
            /\ results' = results
            /\ pc' = "respondedError"]_vars

\* C25 witness: the second of three sections failed and the error response
\* has been sent.
C25_Witness ==
    /\ pc = "respondedError"
    /\ Len(chapters) = 3
    /\ Len(requests) = 2 /\ Len(results) = 1
    /\ ~response.success
    /\ response.error = ErrorMessage("thrownCreateFailed")

\* ------------------------------------------- chrome.runtime.onMessage listener
MaxMessages == 2

\* "standard": a case that ends with break; "legacy": fetchCourse and
\* createDummyChapter, which answer in the legacy form and return;
\* "unknown": the default case
MessageKinds == {"standard", "legacy", "unknown"}

\* error.message of what an operation throws ("" = an Error without a text)
OperationErrors == {"API error", ""}

\* createResponse(success, data, error)
createResponse(success, data, error) ==
    [success |-> success, data |-> data, error |-> error]

\* the listener is called: handleAsync() starts and the listener returns true
ReceiveMessage ==
    /\ Len(msgs) < MaxMessages
    /\ \E t \in MessageKinds :
          msgs' = Append(msgs, [type |-> t, pc |-> "switch",
                                outcome |-> "pending", error |-> Null,
                                responses |-> <<>>])
    /\ UNCHANGED <<flowVars, popup, settingsVars>>

\* the switch: the default case throws, every other case starts its
\* operation and awaits it
Dispatch(i) ==
    /\ msgs[i].pc = "switch"
    /\ msgs' = [msgs EXCEPT ![i] =
          IF @.type = "unknown"
          THEN [@ EXCEPT !.pc = "caught", !.outcome = "threw",
                         !.error = "Unknown message type"]
          ELSE [@ EXCEPT !.pc = "awaiting"]]
    /\ UNCHANGED <<flowVars, popup, settingsVars>>

\* the awaited operation resolves: a standard case breaks and reaches
\* sendResponse(createResponse(true, result)); a legacy case answers
\* { ok: true, ... } and returns
OperationCompletes(i) ==
    /\ msgs[i].pc = "awaiting"
    /\ msgs' = [msgs EXCEPT ![i] =
          [@ EXCEPT !.pc = "done", !.outcome = "completed",
                    !.responses =
                        Append(@, IF msgs[i].type = "standard"
                                  THEN createResponse(TRUE, "result", Null)
                                  ELSE [ok |-> TRUE, data |-> "result"])]]
    /\ UNCHANGED <<flowVars, popup, settingsVars>>

\* the awaited operation rejects: control goes to the catch block
OperationThrows(i) ==
    /\ msgs[i].pc = "awaiting"
    /\ \E e \in OperationErrors :
          msgs' = [msgs EXCEPT ![i] =
              [@ EXCEPT !.pc = "caught", !.outcome = "threw", !.error = e]]
    /\ UNCHANGED <<flowVars, popup, settingsVars>>

\* variant: the catch block logs the error and sends nothing
CatchErrorSilent(i) ==
    /\ msgs[i].pc = "caught"
    /\ msgs' = [msgs EXCEPT ![i] = [@ EXCEPT !.pc = "done"]]
    /\ UNCHANGED <<flowVars, popup, settingsVars>>

\* catch: sendResponse(createResponse(false, null,
\*                     error.message || "Unknown error occurred"))
CatchError(i) ==
    /\ msgs[i].pc = "caught"
    /\ msgs' = [msgs EXCEPT ![i] =
          [@ EXCEPT !.pc = "done",
                    !.responses =
                        Append(@, createResponse(FALSE, Null,
                                     IF msgs[i].error = ""
                                     THEN "Unknown error occurred"
                                     ELSE msgs[i].error))]]
    /\ UNCHANGED <<flowVars, popup, settingsVars>>

\* no generate-and-create run is going on while the listener is observed
InitListener ==
    /\ pc = "start"
    /\ workTypes = [lecture |-> 0, lab |-> 0, practice |-> 0, sro |-> 0]
    /\ structure = <<>>
    /\ chapters = <<>>
    /\ currentCounts = ZeroCounts
    /\ typeIndex = 0
    /\ summary = NoSummary
    /\ LaterIdle
    /\ CreateIdle

NextListener ==
    \/ ReceiveMessage
    \/ \E i \in 1..Len(msgs) : Dispatch(i)
    \/ \E i \in 1..Len(msgs) : OperationCompletes(i)
    \/ \E i \in 1..Len(msgs) : OperationThrows(i)
    \/ \E i \in 1..Len(msgs) : CatchError(i)

SpecListener == InitListener /\ [][NextListener]_vars

\* C26 as stated: no message is answered twice; a message whose handling
\* has ended has exactly one response, which has success = true and the
\* result if the operation completed, and success = false and a non-empty
\* error text if the operation threw or the type is unknown.
C26_ExactlyOneResponse ==
    \A i \in 1..Len(msgs) :
        /\ Len(msgs[i].responses) <= 1
        /\ msgs[i].pc = "done" =>
              /\ Len(msgs[i].responses) = 1
              /\ "success" \in DOMAIN msgs[i].responses[1]
              /\ msgs[i].outcome = "completed" =>
                    /\ msgs[i].responses[1].success
                    /\ msgs[i].responses[1].data = "result"
              /\ msgs[i].outcome = "threw" =>
                    /\ ~msgs[i].responses[1].success
                    /\ msgs[i].responses[1].error \notin {"", Null}

\* C26 amended: as above, except that the completion of a legacy message is
\* answered once in the legacy form, ok = true with the result and no
\* success field.
C26_ExactlyOneResponseOrLegacy ==
    \A i \in 1..Len(msgs) :
        /\ Len(msgs[i].responses) <= 1
        /\ msgs[i].pc # "done" => msgs[i].responses = <<>>
        /\ msgs[i].pc = "done" =>
              /\ Len(msgs[i].responses) = 1
              /\ (msgs[i].outcome = "completed" /\ msgs[i].type # "legacy") =>
                    /\ "success" \in DOMAIN msgs[i].responses[1]
                    /\ msgs[i].responses[1].success
                    /\ msgs[i].responses[1].data = "result"
              /\ (msgs[i].outcome = "completed" /\ msgs[i].type = "legacy") =>
                    msgs[i].responses[1] = [ok |-> TRUE, data |-> "result"]
              /\ msgs[i].outcome = "threw" =>
                    /\ "success" \in DOMAIN msgs[i].responses[1]
                    /\ ~msgs[i].responses[1].success
                    /\ msgs[i].responses[1].error \notin {"", Null}

\* C26 witness: two messages handled concurrently, the first one's operation
\* threw an Error without a text after the second one, a legacy message,
\* had been answered.
C26_Witness ==
    /\ Len(msgs) = 2
    /\ msgs[1].type = "standard" /\ msgs[1].pc = "done"
    /\ msgs[1].outcome = "threw"
    /\ msgs[1].responses[1].error = "Unknown error occurred"
    /\ msgs[2].type = "legacy" /\ msgs[2].pc = "done"
    /\ msgs[2].outcome = "completed"

\* ------------------------------------- generateStructureBtn click handler
MaxClicks == 2

NewFlow == [pc |-> "checkToken", token |-> "unknown", key |-> "unknown",
            generation |-> "none", proceed |-> "none", createSent |-> FALSE,
            creation |-> "none"]

\* a click on the button, which a disabled button does not deliver
ClickGenerate ==
    /\ ~popup.disabled
    /\ Len(popup.flows) < MaxClicks
    /\ popup' = [popup EXCEPT !.flows = Append(@, NewFlow)]
    /\ UNCHANGED <<flowVars, msgs, settingsVars>>

\* "if (!token || !isItmoProgramsPage(tabUrl)) { alert; return }"
CheckToken(f) ==
    /\ popup.flows[f].pc = "checkToken"
    /\ \E ok \in BOOLEAN :
          popup' = [popup EXCEPT !.flows[f] =
              [@ EXCEPT !.token = IF ok THEN "present" ELSE "missing",
                        !.pc = IF ok THEN "getKey" ELSE "finally"]]
    /\ UNCHANGED <<flowVars, msgs, settingsVars>>

\* GET_SETTINGS answered (or failed); "if (!openaiKey) { alert; return }",
\* otherwise the button is disabled and GENERATE_STRUCTURE is sent
CheckKey(f) ==
    /\ popup.flows[f].pc = "getKey"
    /\ \E ok \in BOOLEAN :
          popup' = [popup EXCEPT
              !.flows[f] = [@ EXCEPT !.key = IF ok THEN "present" ELSE "missing",
                                     !.pc = IF ok THEN "generating" ELSE "finally"],
              !.disabled = IF ok THEN TRUE ELSE @]
    /\ UNCHANGED <<flowVars, msgs, settingsVars>>

\* BackgroundApi.generateStructure resolves, or rejects into the catch block
GenerationAnswered(f) ==
    /\ popup.flows[f].pc = "generating"
    /\ \E ok \in BOOLEAN :
          popup' = [popup EXCEPT !.flows[f] =
              [@ EXCEPT !.generation = IF ok THEN "succeeded" ELSE "failed",
                        !.pc = IF ok THEN "confirm" ELSE "finally"]]
    /\ UNCHANGED <<flowVars, msgs, settingsVars>>

\* variant: the chapters are created whatever the user answers
ConfirmIgnored(f) ==
    /\ popup.flows[f].pc = "confirm"
    /\ \E ok \in BOOLEAN :
          popup' = [popup EXCEPT !.flows[f] =
              [@ EXCEPT !.proceed = IF ok THEN "yes" ELSE "no",
                        !.createSent = TRUE,
                        !.pc = "creating"]]
    /\ UNCHANGED <<flowVars, msgs, settingsVars>>

\* confirm(): "if (!proceed) return", otherwise
\* CREATE_CHAPTERS_FROM_STRUCTURE is sent
Confirm(f) ==
    /\ popup.flows[f].pc = "confirm"
    /\ \E ok \in BOOLEAN :
          popup' = [popup EXCEPT !.flows[f] =
              [@ EXCEPT !.proceed = IF ok THEN "yes" ELSE "no",
                        !.createSent = ok,
                        !.pc = IF ok THEN "creating" ELSE "finally"]]
    /\ UNCHANGED <<flowVars, msgs, settingsVars>>

\* BackgroundApi.createChaptersFromStructure resolves (alert with the
\* results) or rejects (catch: alert with the error)
CreationAnswered(f) ==
    /\ popup.flows[f].pc = "creating"
    /\ \E ok \in BOOLEAN :
          popup' = [popup EXCEPT !.flows[f] =
              [@ EXCEPT !.creation = IF ok THEN "succeeded" ELSE "failed",
                        !.pc = "finally"]]
    /\ UNCHANGED <<flowVars, msgs, settingsVars>>

\* finally: generateStructureBtn.disabled = false
Finally(f) ==
    /\ popup.flows[f].pc = "finally"
    /\ popup' = [popup EXCEPT !.flows[f] = [@ EXCEPT !.pc = "ended"],
                              !.disabled = FALSE]
    /\ UNCHANGED <<flowVars, msgs, settingsVars>>

InitPopup == InitListener

NextPopup ==
    \/ ClickGenerate
    \/ \E f \in 1..Len(popup.flows) : CheckToken(f)
    \/ \E f \in 1..Len(popup.flows) : CheckKey(f)
    \/ \E f \in 1..Len(popup.flows) : GenerationAnswered(f)
    \/ \E f \in 1..Len(popup.flows) : Confirm(f)
    \/ \E f \in 1..Len(popup.flows) : CreationAnswered(f)
    \/ \E f \in 1..Len(popup.flows) : Finally(f)

SpecPopup == InitPopup /\ [][NextPopup]_vars

\* C27: a run of the click handler has sent the creation request only if
\* the token and the key were present, generation succeeded and the user
\* confirmed; a run in which one of these failed never sends it; and the
\* step that ends a run leaves the button enabled.
C27_CreateOnlyAfterConfirm ==
    /\ [](\A f \in 1..Len(popup.flows) :
            LET flow == popup.flows[f] IN
            /\ flow.createSent =>
                  /\ flow.token = "present" /\ flow.key = "present"
                  /\ flow.generation = "succeeded" /\ flow.proceed = "yes"
            /\ (\/ flow.token = "missing" \/ flow.key = "missing"
                \/ flow.generation = "failed" \/ flow.proceed = "no")
                  => ~flow.createSent /\ flow.pc \in {"finally", "ended"})
    /\ [][\A f \in 1..Len(popup.flows) :
            (popup.flows[f].pc # "ended" /\ popup'.flows[f].pc = "ended")
               => ~popup'.disabled]_vars

\* C27 witness: two runs started before the button was disabled; the first
\* was declined and has ended, the second has sent the creation request.
C27_Witness ==
    /\ Len(popup.flows) = 2
    /\ popup.flows[1].pc = "ended" /\ popup.flows[1].proceed = "no"
    /\ ~popup.flows[1].createSent
    /\ popup.flows[2].pc = "creating" /\ popup.flows[2].createSent
    /\ ~popup.disabled

\* ------------------------------------------ SettingsManager and analytics
MaxTicks == 2
MaxGets == 2
MaxEvents == 1

Setters == {"setterOne", "setterTwo"}

\* the arguments of the two setSetting calls
SetKey(p) == IF p = "setterOne" THEN "developerMode" ELSE "analyticsEnabled"

SetValue(p) == IF p = "setterOne" THEN "on" ELSE "off"

\* { ...DEFAULT_SETTINGS, ...syncSettings }: sync.get answers only the keys
\* that were ever set
MergeDefaults(stored) ==
    [k \in SettingKeys |-> IF stored[k] = "unset" THEN DEFAULT_SETTINGS[k]
                           ELSE stored[k]]

\* isSettingsValid: Date.now() - (settings.lastUpdated || 0) < one hour
isSettingsValid(c) == c.present /\ now - c.lastUpdated < Hour

\* a caller after its getSettings has returned: the reader holds the result,
\* setSetting builds newSettings with lastUpdated: Date.now() and calls sync.set
AfterGet(p, proc) ==
    IF p = "reader" THEN [proc EXCEPT !.pc = "returned"]
    ELSE [proc EXCEPT !.pc = "syncSet", !.stamp = now]

\* time passes
Tick ==
    /\ now < Hour + MaxTicks
    /\ now' = now + 1
    /\ UNCHANGED <<flowVars, msgs, popup, sync, cache, procs, events>>

\* getSettings is called
StartGet ==
    /\ procs["reader"].pc = "idle"
    /\ procs["reader"].gets < MaxGets
    /\ procs' = [procs EXCEPT !["reader"] =
          [@ EXCEPT !.pc = "readLocal",
                    !.readSync = FALSE,
                    !.age = 0,
                    !.gets = @ + 1,
                    !.afterBoth = \A q \in Setters : procs[q].pc = "done",
                    !.soonAfterFallback = /\ procs["reader"].fellBackAt >= 0
                                          /\ now - procs["reader"].fellBackAt < Hour]]
    /\ UNCHANGED <<flowVars, msgs, popup, sync, cache, now, events>>

\* setSetting(key, value) is called and calls getSettings
StartSet(p) ==
    /\ p \in Setters
    /\ procs[p].pc = "idle"
    /\ procs' = [procs EXCEPT ![p] = [@ EXCEPT !.pc = "readLocal"]]
    /\ UNCHANGED <<flowVars, msgs, popup, sync, cache, now, events>>

\* getSettings: local.get(["cachedSettings"]); a valid cache is the answer
ReadLocal(p) ==
    /\ procs[p].pc = "readLocal"
    /\ procs' = [procs EXCEPT ![p] =
          IF isSettingsValid(cache)
          THEN AfterGet(p, [@ EXCEPT !.current = cache.settings,
                                     !.age = now - cache.lastUpdated])
          ELSE [@ EXCEPT !.pc = "readSync"]]
    /\ UNCHANGED <<flowVars, msgs, popup, sync, cache, now, events>>

\* getSettings: sync.get(keys of DEFAULT_SETTINGS) merged over the defaults
ReadSync(p) ==
    /\ procs[p].pc = "readSync"
    /\ procs' = [procs EXCEPT ![p] =
          [@ EXCEPT !.pc = "cacheWrite",
                    !.readSync = TRUE,
                    !.current = MergeDefaults(sync)]]
    /\ UNCHANGED <<flowVars, msgs, popup, sync, cache, now, events>>

\* getSettings: cacheSettings(settings); the settings read from sync carry
\* no lastUpdated
CacheWrite(p) ==
    /\ procs[p].pc = "cacheWrite"
    /\ cache' = [present |-> TRUE, settings |-> procs[p].current, lastUpdated |-> 0]
    /\ procs' = [procs EXCEPT ![p] = AfterGet(p, [@ EXCEPT !.fellBackAt = now])]
    /\ UNCHANGED <<flowVars, msgs, popup, sync, now, events>>

\* the caller of getSettings goes on
FinishGet ==
    /\ procs["reader"].pc = "returned"
    /\ procs' = [procs EXCEPT !["reader"] =
          [IdleProc EXCEPT !.gets = procs["reader"].gets,
                           !.fellBackAt = procs["reader"].fellBackAt]]
    /\ UNCHANGED <<flowVars, msgs, popup, sync, cache, now, events>>

\* setSetting: sync.set({ [key]: value })
SyncSet(p) ==
    /\ procs[p].pc = "syncSet"
    /\ sync' = [sync EXCEPT ![SetKey(p)] = SetValue(p)]
    /\ procs' = [procs EXCEPT ![p] = [@ EXCEPT !.pc = "cacheNew"]]
    /\ UNCHANGED <<flowVars, msgs, popup, cache, now, events>>

\* setSetting: cacheSettings(newSettings), then return true
CacheNew(p) ==
    /\ procs[p].pc = "cacheNew"
    /\ cache' = [present |-> TRUE,
                 settings |-> [procs[p].current EXCEPT ![SetKey(p)] = SetValue(p)],
                 lastUpdated |-> procs[p].stamp]
    /\ procs' = [procs EXCEPT ![p] = [IdleProc EXCEPT !.pc = "done"]]
    /\ UNCHANGED <<flowVars, msgs, popup, sync, now, events>>

\* options page, saveSettings: the form is read, lastUpdated: Date.now()
SaveOptions ==
    /\ procs["options"].pc = "idle"
    /\ \E form \in [SettingKeys -> {"on", "off"}] :
          procs' = [procs EXCEPT !["options"] =
              [@ EXCEPT !.pc = "optionsSync", !.current = form, !.stamp = now]]
    /\ UNCHANGED <<flowVars, msgs, popup, sync, cache, now, events>>

\* saveSettings: sync.set(settings)
OptionsSyncSet ==
    /\ procs["options"].pc = "optionsSync"
    /\ sync' = procs["options"].current
    /\ procs' = [procs EXCEPT !["options"] = [@ EXCEPT !.pc = "optionsCache"]]
    /\ UNCHANGED <<flowVars, msgs, popup, cache, now, events>>

\* saveSettings: local.set({ cachedSettings: settings })
OptionsCacheSet ==
    /\ procs["options"].pc = "optionsCache"
    /\ cache' = [present |-> TRUE, settings |-> procs["options"].current,
                 lastUpdated |-> procs["options"].stamp]
    /\ procs' = [procs EXCEPT !["options"] = [IdleProc EXCEPT !.pc = "done"]]
    /\ UNCHANGED <<flowVars, msgs, popup, sync, now, events>>

\* what the user has set for analyticsEnabled: the stored value, which the
\* cache, once written by a completed save, repeats
UserAnalyticsSetting == MergeDefaults(sync)["analyticsEnabled"]

\* an evaluation in the popup: trackEvaluation -> TRACK_EVALUATION ->
\* AnalyticsService.trackEvaluation posts the event; each event is recorded
\* with the setting in force when it was sent
Evaluate ==
    /\ Len(events) < MaxEvents
    /\ events' = Append(events, [name |-> "discipline_evaluated",
                                 analyticsEnabled |-> UserAnalyticsSetting])
    /\ UNCHANGED <<flowVars, msgs, popup, sync, cache, procs, now>>

InitSettings == InitListener

\* two setSetting calls and a caller of getSettings, in any interleaving
NextSettings ==
    \/ Tick
    \/ StartGet
    \/ \E p \in Setters : StartSet(p)
    \/ \E p \in Setters \cup {"reader"} : ReadLocal(p)
    \/ \E p \in Setters \cup {"reader"} : ReadSync(p)
    \/ \E p \in Setters \cup {"reader"} : CacheWrite(p)
    \/ FinishGet
    \/ \E p \in Setters : SyncSet(p)
    \/ \E p \in Setters : CacheNew(p)

SpecSettings == InitSettings /\ [][NextSettings]_vars

InitAnalytics == InitListener

\* settings changes (the options page, setSetting("analyticsEnabled", false))
\* and evaluations, in any order
NextAnalytics ==
    \/ Tick
    \/ StartSet("setterTwo")
    \/ ReadLocal("setterTwo")
    \/ ReadSync("setterTwo")
    \/ CacheWrite("setterTwo")
    \/ SyncSet("setterTwo")
    \/ CacheNew("setterTwo")
    \/ SaveOptions
    \/ OptionsSyncSet
    \/ OptionsCacheSet
    \/ Evaluate

SpecAnalytics == InitAnalytics /\ [][NextAnalytics]_vars

\* C28: no analytics event is sent by an evaluation while the user setting
\* analyticsEnabled is off.
C28_NoEventWhenDisabled ==
    \A i \in 1..Len(events) : events[i].analyticsEnabled # "off"

\* C29: a getSettings that starts after both setSetting calls have
\* completed returns v1 for k1 and v2 for k2.
C29_BothValuesVisible ==
    (procs["reader"].pc = "returned" /\ procs["reader"].afterBoth)
       => \A p \in Setters : procs["reader"].current[SetKey(p)] = SetValue(p)

\* C30: a getSettings called less than one hour after a getSettings that
\* fell back to sync storage and cached the result is answered without
\* reading sync storage; and no getSettings returns cached settings whose
\* lastUpdated is one hour old or more.
C30_CacheAnswersWithinHour ==
    procs["reader"].pc = "returned"
       => /\ procs["reader"].soonAfterFallback => ~procs["reader"].readSync
          /\ procs["reader"].age < Hour

\* the second half of C30 alone
CachedAgeBelowHour ==
    \A p \in Processes : procs[p].age < Hour

====
